---- MODULE Spec2Model ----
\* Model of libwui.cli.format_table and libwui.colors.strlen / clean_esc.
\* Text is a sequence of one-character strings; "ESC" stands for the single
\* character \x1b.  A dict is a function whose domain is its key set.
EXTENDS Integers, Sequences, FiniteSets, TLC

\* ---------------------------------------------------------------- bounds
MaxTerm == 6          \* terminal widths explored: 1..MaxTerm
MaxCellWidth == 5     \* generated cells have visible width 0..MaxCellWidth
MaxSpacing == 1       \* column_spacing / end_spacing explored: 0..MaxSpacing
WideTerm == 80        \* a terminal wide enough that nothing wraps

\* ---------------------------------------------------------------- colors.py
ESC == "ESC"

_a(num) == <<ESC, "[">> \o num \o <<"m">>

BOLD == _a(<<"1">>)
CYAN == _a(<<"3", "6">>)
RED == _a(<<"3", "1">>)
RESET == _a(<<"0">>)
DEF_BG == _a(<<"4", "9">>)

\* the parameter characters of the pattern \x1b\[[0-9;]*m
CsiParams == {"0", "1", "2", "3", "4", "5", "6", "7", "8", "9", ";"}

\* number of leading characters of s that belong to CsiParams
RECURSIVE ParamRun(_)
ParamRun(s) ==
    IF s # <<>> /\ Head(s) \in CsiParams THEN 1 + ParamRun(Tail(s)) ELSE 0

\* length of the match of ESC [ params* <final> anchored at the start of s,
\* 0 when there is no match
CsiLen(s, finals) ==
    IF Len(s) >= 3 /\ s[1] = ESC /\ s[2] = "["
    THEN LET k == ParamRun(SubSeq(s, 3, Len(s)))
         IN IF 3 + k <= Len(s) /\ s[3 + k] \in finals THEN 3 + k ELSE 0
    ELSE 0

RECURSIVE StripCsi(_, _)
StripCsi(s, finals) ==
    IF s = <<>> THEN <<>>
    ELSE LET n == CsiLen(s, finals)
         IN IF n > 0 THEN StripCsi(SubSeq(s, n + 1, Len(s)), finals)
            ELSE <<Head(s)>> \o StripCsi(Tail(s), finals)

clean_esc(text) == StripCsi(text, {"m"})

\* strlen of a string; strlen of a list is Len
strlen(val) == Len(clean_esc(val))

\* ---------------------------------------------------------------- textwrap
\* textwrap.wrap with its defaults, for text whose only whitespace is " "
\* and that holds no hyphen: chunks are the maximal runs of blanks / non-blanks.
IsBlank(chunk) == \A i \in 1..Len(chunk) : chunk[i] = " "

RECURSIVE SplitChunks(_, _)
SplitChunks(text, cur) ==
    IF text = <<>> THEN (IF cur = <<>> THEN <<>> ELSE <<cur>>)
    ELSE IF cur = <<>> \/ ((Head(text) = " ") <=> (cur[1] = " "))
         THEN SplitChunks(Tail(text), Append(cur, Head(text)))
         ELSE <<cur>> \o SplitChunks(Tail(text), <<Head(text)>>)

RECURSIVE Flatten(_)
Flatten(ss) == IF ss = <<>> THEN <<>> ELSE Head(ss) \o Flatten(Tail(ss))

\* the inner "while chunks" loop: move chunks to the line while they fit
RECURSIVE FillLine(_, _, _, _)
FillLine(chunks, width, cur_line, cur_len) ==
    IF chunks # <<>> /\ cur_len + Len(Head(chunks)) <= width
    THEN FillLine(Tail(chunks), width, Append(cur_line, Head(chunks)),
                  cur_len + Len(Head(chunks)))
    ELSE [line |-> cur_line, len |-> cur_len, rest |-> chunks]

\* _handle_long_word with break_long_words (width >= 1)
HandleLongWord(f, width) ==
    IF f.rest # <<>> /\ Len(Head(f.rest)) > width
    THEN LET space_left == width - f.len
             chunk == Head(f.rest)
         IN [line |-> Append(f.line, SubSeq(chunk, 1, space_left)),
             rest |-> <<SubSeq(chunk, space_left + 1, Len(chunk))>>
                      \o Tail(f.rest)]
    ELSE [line |-> f.line, rest |-> f.rest]

DropTrailingBlank(cur_line) ==
    IF cur_line # <<>> /\ IsBlank(cur_line[Len(cur_line)])
    THEN SubSeq(cur_line, 1, Len(cur_line) - 1) ELSE cur_line

RECURSIVE WrapChunks(_, _, _)
WrapChunks(chunks, width, lines) ==
    IF chunks = <<>> THEN lines
    ELSE LET c1 == IF IsBlank(Head(chunks)) /\ lines # <<>>
                   THEN Tail(chunks) ELSE chunks
             h == HandleLongWord(FillLine(c1, width, <<>>, 0), width)
             cur_line == DropTrailingBlank(h.line)
         IN WrapChunks(h.rest, width,
                       IF cur_line = <<>> THEN lines
                       ELSE Append(lines, Flatten(cur_line)))

textwrap_wrap(text, width) == WrapChunks(SplitChunks(text, <<>>), width, <<>>)


\* ---------------------------------------------------------------- values
NoPair == <<<<>>, <<>>>>                \* the default ('', '') of dict.get
EL == <<ESC, "[", "K">>                 \* '\x1b[K', appended to striped rows

Lit(text) == [lit |-> TRUE, text |-> text, cells |-> <<>>]
Cells(cells) == [lit |-> FALSE, text |-> <<>>, cells |-> cells]

Max(S) == CHOOSE m \in S : \A e \in S : e <= m

RECURSIVE Sum(_)
Sum(ws) == IF ws = <<>> THEN 0 ELSE Head(ws) + Sum(Tail(ws))

RECURSIVE SumOver(_, _)
SumOver(f, S) ==
    IF S = {} THEN 0
    ELSE LET e == CHOOSE e \in S : TRUE IN f[e] + SumOver(f, S \ {e})

Spaces(n) == [i \in 1..n |-> " "]       \* ' ' * n, '' when n <= 0

RECURSIVE Repeat(_, _)
Repeat(text, n) == IF n <= 0 THEN <<>> ELSE text \o Repeat(text, n - 1)

\* math.ceil(a / b) for b > 0
Ceil(a, b) == -((-a) \div b)

\* text[:n] of Python, n may be negative
Slice(text, n) ==
    IF n >= 0 THEN SubSeq(text, 1, IF n < Len(text) THEN n ELSE Len(text))
    ELSE SubSeq(text, 1, Len(text) + n)

RECURSIVE rstrip(_)
rstrip(text) ==
    IF text # <<>> /\ text[Len(text)] = " "
    THEN rstrip(SubSeq(text, 1, Len(text) - 1)) ELSE text

RECURSIVE Join(_, _)
Join(sep, parts) ==
    IF parts = <<>> THEN <<>>
    ELSE IF Len(parts) = 1 THEN parts[1]
    ELSE parts[1] \o sep \o Join(sep, Tail(parts))

\* Python list index (0-based, negative counts from the end) -> 1-based
Idx(pos, n) == IF pos < 0 THEN n + pos + 1 ELSE pos + 1

VARIABLES
    args,            \* the arguments of the call, as passed
    term_columns,    \* shutil.get_terminal_size().columns
    caller,          \* current contents of the caller's argument objects
    pc,              \* position in the generator body
    err,             \* exception raised out of the generator, or "none"
    rows,            \* local: rows
    max_widths,      \* local: max_widths
    wrap_columns,    \* local: wrap_columns (the rebound, normalised set)
    total_spacing,   \* local: total_spacing
    wrappable_space, \* local: wrappable_space
    todo,            \* elements of list(wrap_columns) not visited yet
    surround_fresh,  \* the dict() made when the caller's map is falsy
    row_idx,         \* number of rows already rendered
    out              \* lines yielded so far

vars == <<args, term_columns, caller, pc, err, rows, max_widths, wrap_columns,
          total_spacing, wrappable_space, todo, surround_fresh, row_idx, out>>

\* `surround_rows or dict()`: a non-empty map is the caller's own object
Aliased == DOMAIN args.surround_rows # {}
surround_rows == IF Aliased THEN caller.surround_rows ELSE surround_fresh

Structured(rs) == {i \in 1..Len(rs) : ~rs[i].lit}

\* lines 55-57: right-pad every structured row with '' to max_row_length
PadRows(rs, max_row_length) ==
    [i \in 1..Len(rs) |->
        IF rs[i].lit THEN rs[i]
        ELSE Cells(rs[i].cells
                   \o [k \in 1..(max_row_length - Len(rs[i].cells)) |-> <<>>])]

\* lines 58-60
MaxWidths(rs, max_row_length) ==
    [col \in 1..max_row_length |->
        Max({strlen(rs[i].cells[col]) : i \in Structured(rs)})]

\* lines 61-62
NormWrap(ws, n) == {IF w >= 0 THEN w ELSE n + w : w \in ws}

\* line 63
TotalSpacing(ncols, column_spacing, end_spacing) ==
    (ncols - 1) * column_spacing + end_spacing

\* line 64
WrapTriggered(widths, spacing, columns, wrap) ==
    Sum(widths) + spacing > columns /\ wrap # {}

\* InitialShare that forgets the columns outside the wrap set
InitialShare_NoUnwrappable(widths, spacing, columns, wrap) ==
    (columns - spacing) \div Cardinality(wrap)

\* lines 65-68
InitialShare(widths, spacing, columns, wrap) ==
    LET unwrappable_space ==
            SumOver(widths, {n \in 1..Len(widths) : (n - 1) \notin wrap})
    IN (columns - spacing - unwrappable_space) \div Cardinality(wrap)

\* lines 73-74, evaluated after the removal of the visited column
Redistribute(share, width, remaining) ==
    share + (share - width) \div Max({1, remaining})

\* TooNarrow with <= in place of <
TooNarrow_OrEqual(widths, require) ==
    \E p \in require : widths[Idx(p[1], Len(widths))] <= p[2]

\* lines 79-81
TooNarrow(widths, require) ==
    \E p \in require : widths[Idx(p[1], Len(widths))] < p[2]

\* lines 83-86
TitleSepLine(widths, spacing, sep_char) ==
    LET title_sep_line_width == Sum(widths) + spacing
    IN Slice(Repeat(sep_char, Ceil(title_sep_line_width, Len(sep_char))),
             title_sep_line_width)

\* lines 90-95
format_column(row, column, text) ==
    IF row >= 0 /\ DOMAIN args.column_formats # {}
       /\ column \in DOMAIN args.column_formats
    THEN args.column_formats[column][1] \o text \o args.column_formats[column][2]
    ELSE text

\* lines 105-108
WrapCells(cells, share, wrap) ==
    [n \in 1..Len(cells) |->
        IF share > 0 /\ (n - 1) \in wrap
        THEN textwrap_wrap(cells[n], share) ELSE <<cells[n]>>]

\* PadCell that pads one space short
PadCell_OneShort(text, width) == Spaces(width - strlen(text) - 1)

\* line 111
PadCell(text, width) == Spaces(width - strlen(text))

\* lines 109-113: zip_longest over the wrapped cells, one line per sub-row
SubRows(row_num, wrapped, widths, column_spacing) ==
    LET height == IF wrapped = <<>> THEN 0
                  ELSE Max({Len(wrapped[n]) : n \in 1..Len(wrapped)})
    IN [j \in 1..height |->
           rstrip(Join(Spaces(column_spacing),
               [n \in 1..Len(wrapped) |->
                   LET c == IF j <= Len(wrapped[n]) THEN wrapped[n][j] ELSE <<>>
                   IN format_column(row_num, n - 1, c)
                      \o PadCell(c, widths[n])]))]

\* lines 98-101
Decoration(row_num) ==
    LET pair == IF row_num \in DOMAIN surround_rows
                THEN surround_rows[row_num] ELSE NoPair
        striped == args.striped_row_bg.some /\ row_num > 0 /\ row_num % 2 = 1
    IN <<pair[1] \o (IF striped THEN args.striped_row_bg.val ELSE <<>>),
         pair[2] \o (IF striped THEN EL \o RESET ELSE <<>>)>>

\* lines 102-114: the lines one row yields
RowLines(row, row_num) ==
    LET d == Decoration(row_num)
        bodies == IF row.lit THEN <<row.text>>
                  ELSE SubRows(row_num,
                               WrapCells(row.cells, wrappable_space, wrap_columns),
                               max_widths, args.column_spacing)
    IN [j \in 1..Len(bodies) |->
           [row_num |-> row_num, lit |-> row.lit,
            text |-> d[1] \o bodies[j] \o d[2]]]

\* ---------------------------------------------------------------- inputs
NoStripe == [some |-> FALSE, val |-> <<>>]
Stripe(bg) == [some |-> TRUE, val |-> bg]

\* a cell of visible width w: "aa aa aa ..." cut to w characters
Text(w) == [i \in 1..w |-> IF i % 3 = 0 THEN " " ELSE "a"]

Call(items, titles, wrap, cs, es, req, sur, fmts, stripe, sep) ==
    [items |-> items, titles |-> titles, wrap_columns |-> wrap,
     column_spacing |-> cs, end_spacing |-> es, require_min_widths |-> req,
     surround_rows |-> sur, column_formats |-> fmts,
     striped_row_bg |-> stripe, title_sep_char |-> sep,
     title_sep_color |-> CYAN]

Dash == <<"-">>

\* one structured row per vector of cell widths
WidthVectors(n) == [1..n -> 0..MaxCellWidth]

WidthRow(v) == Cells([n \in 1..Len(v) |-> Text(v[n])])

\* required minimum widths over two columns, indices 0, 1 and -1
RequirePairs == {<<0, 2>>, <<1, 3>>, <<-1, 1>>}

\* tables with literal rows, short rows, escape sequences, no rows at all
TabC8 == <<Cells(<<<<"a">>, <<"b", "b">>>>),
           Cells(<<<<"c", "c", "c">>, <<"d">>>>)>>
TabLit == <<Lit(<<"=", "=">>)>>
TabMix == <<Lit(<<"=", "=">>), Cells(<<<<"a">>, <<"b", "b">>>>),
            Cells(<<<<"c", "c", "c">>>>)>>
TabEmpty == <<>>
TabZero == <<Cells(<<>>)>>
TabEsc == <<Cells(<<BOLD \o <<"a", "b">> \o RESET, <<"c">>>>),
            Cells(<<<<>>, <<"a", "a", " ", "a", "a">>>>)>>
Tab3 == <<Cells(<<<<"a">>, <<"b">>, <<"c">>>>)>>
Tables == {TabC8, TabLit, TabMix, TabEmpty, TabZero, TabEsc, Tab3}

TitleChoices == {<<>>, <<<<"N">>, <<"A", "g">>>>, <<<<>>>>}

\* the column count the call will compute, 0 without structured cells
NCols(items, titles) ==
    Max({0, Len(titles)} \cup {Len(items[i].cells) : i \in Structured(items)})

WrapChoices(n) == IF n = 0 THEN {{}} ELSE {{}, {-1}, 0..(n - 1)}

SurroundChoices ==
    {<<>>, (0 :> <<RED, RESET>>),
     (-2 :> <<RED, RESET>>) @@ (-1 :> <<RED, RESET>>)}

\* (column_formats, striped_row_bg, title_sep_char)
Styles ==
    {<<<<>>, NoStripe, Dash>>,
     <<(0 :> <<CYAN, RESET>>), Stripe(DEF_BG), Dash>>,
     <<<<>>, Stripe(DEF_BG), <<"=", "-">>>>,
     <<(0 :> <<CYAN, RESET>>), NoStripe, <<"=", "-">>>>}

\* (column_spacing, end_spacing)
Spacings == {<<2, 0>>, <<1, 0>>, <<2, 2>>}

\* ---------------------------------------------------------------- the call
\* the state when the generator is created: nothing has run yet
Start(call, columns) ==
    /\ args = call
    /\ term_columns = columns
    /\ caller = [items |-> call.items, titles |-> call.titles,
                 wrap_columns |-> call.wrap_columns,
                 surround_rows |-> call.surround_rows,
                 column_formats |-> call.column_formats]
    /\ pc = "start"
    /\ err = "none"
    /\ rows = <<>>
    /\ max_widths = <<>>
    /\ wrap_columns = {}
    /\ total_spacing = 0
    /\ wrappable_space = 0
    /\ todo = {}
    /\ surround_fresh = <<>>
    /\ row_idx = 0
    /\ out = <<>>

\* layout: every width vector of 1..3 columns, wrap set, spacing and
\* terminal width
LayoutInit ==
    \E n \in 1..3 : \E v \in WidthVectors(n), w \in SUBSET (0..(n - 1)),
                       cs \in 0..MaxSpacing, es \in 0..MaxSpacing,
                       t \in 1..MaxTerm :
        Start(Call(<<WidthRow(v)>>, <<>>, w, cs, es, {},
                   <<>>, <<>>, NoStripe, Dash), t)

\* required minimum widths over two columns
MinWidthInit ==
    \E v \in WidthVectors(2), w \in SUBSET (0..1),
       req \in SUBSET RequirePairs, t \in 1..MaxTerm :
        Start(Call(<<WidthRow(v)>>, <<>>, w, 1, 0, req,
                   <<>>, <<>>, NoStripe, Dash), t)

\* titles, decorations, literal rows
DecorInit ==
    \E tab \in Tables, ti \in TitleChoices :
        \E w \in WrapChoices(NCols(tab, ti)), sur \in SurroundChoices,
           st \in Styles, sp \in Spacings, t \in {1, 3, WideTerm} :
            Start(Call(tab, ti, w, sp[1], sp[2], {}, sur,
                       st[1], st[2], st[3]), t)

Init == LayoutInit \/ MinWidthInit \/ DecorInit

\* lines 43-52: bind the maps, copy the rows, return when there are none
Assemble ==
    /\ pc = "start"
    /\ rows' = (IF args.titles # <<>> THEN <<Cells(caller.titles)>> ELSE <<>>)
               \o caller.items
    /\ pc' = IF rows' = <<>> THEN "done" ELSE "widths"
    /\ UNCHANGED <<args, term_columns, caller, err, max_widths, wrap_columns,
                   total_spacing, wrappable_space, todo, surround_fresh,
                   row_idx, out>>

\* line 53 raises ValueError: max() of an empty sequence
NoStructuredRow ==
    /\ pc = "widths"
    /\ Structured(rows) = {}
    /\ pc' = "failed"
    /\ err' = "ValueError"
    /\ UNCHANGED <<args, term_columns, caller, rows, max_widths, wrap_columns,
                   total_spacing, wrappable_space, todo, surround_fresh,
                   row_idx, out>>

\* lines 53-63
ComputeWidths ==
    /\ pc = "widths"
    /\ Structured(rows) # {}
    /\ LET max_row_length == Max({Len(rows[i].cells) : i \in Structured(rows)})
       IN /\ rows' = PadRows(rows, max_row_length)
          /\ max_widths' = MaxWidths(rows', max_row_length)
          /\ wrap_columns' = NormWrap(caller.wrap_columns, max_row_length)
          /\ total_spacing' = TotalSpacing(max_row_length, args.column_spacing,
                                           args.end_spacing)
    /\ pc' = "decide"
    /\ UNCHANGED <<args, term_columns, caller, err, wrappable_space, todo,
                   surround_fresh, row_idx, out>>

\* lines 64-68: wrapping is triggered
BeginWrap ==
    /\ pc = "decide"
    /\ WrapTriggered(max_widths, total_spacing, term_columns, wrap_columns)
    /\ wrappable_space' = InitialShare(max_widths, total_spacing, term_columns,
                                       wrap_columns)
    /\ todo' = wrap_columns
    /\ pc' = "wrap_loop"
    /\ UNCHANGED <<args, term_columns, caller, err, rows, max_widths,
                   wrap_columns, total_spacing, surround_fresh, row_idx, out>>

\* lines 77-78
NoWrap ==
    /\ pc = "decide"
    /\ ~WrapTriggered(max_widths, total_spacing, term_columns, wrap_columns)
    /\ wrappable_space' = -1
    /\ pc' = "check_min"
    /\ UNCHANGED <<args, term_columns, caller, err, rows, max_widths,
                   wrap_columns, total_spacing, todo, surround_fresh,
                   row_idx, out>>

\* lines 70-74: one iteration over list(wrap_columns); a set has no order
WrapVisit(n) ==
    /\ pc = "wrap_loop"
    /\ n \in todo
    /\ todo' = todo \ {n}
    /\ IF max_widths[n + 1] < wrappable_space
       THEN /\ wrap_columns' = wrap_columns \ {n}
            /\ wrappable_space' = Redistribute(wrappable_space,
                                               max_widths[n + 1],
                                               Cardinality(wrap_columns'))
       ELSE UNCHANGED <<wrap_columns, wrappable_space>>
    /\ UNCHANGED <<args, term_columns, caller, pc, err, rows, max_widths,
                   total_spacing, surround_fresh, row_idx, out>>

\* lines 75-76
ClampWrapped ==
    /\ pc = "wrap_loop"
    /\ todo = {}
    /\ max_widths' = [n \in 1..Len(max_widths) |->
                         IF (n - 1) \in wrap_columns THEN wrappable_space
                         ELSE max_widths[n]]
    /\ pc' = "check_min"
    /\ UNCHANGED <<args, term_columns, caller, err, rows, wrap_columns,
                   total_spacing, wrappable_space, todo, surround_fresh,
                   row_idx, out>>

\* lines 79-81
RaiseTooNarrow ==
    /\ pc = "check_min"
    /\ TooNarrow(max_widths, args.require_min_widths)
    /\ pc' = "failed"
    /\ err' = "TooNarrowColumn"
    /\ UNCHANGED <<args, term_columns, caller, rows, max_widths, wrap_columns,
                   total_spacing, wrappable_space, todo, surround_fresh,
                   row_idx, out>>

\* the value the map holds after lines 87-88
WithTitleSlots(sur) ==
    [k \in DOMAIN sur \cup {-2, -1} |->
        IF k = -2 THEN <<BOLD, RESET>>
        ELSE IF k = -1 THEN <<args.title_sep_color, RESET>>
        ELSE sur[k]]

\* lines 82-88
InsertTitleSep ==
    /\ pc = "check_min"
    /\ ~TooNarrow(max_widths, args.require_min_widths)
    /\ args.titles # <<>>
    /\ rows' = <<rows[1],
                 Lit(TitleSepLine(max_widths, total_spacing,
                                  args.title_sep_char))>>
               \o Tail(rows)
    /\ IF Aliased
       THEN /\ caller' = [caller EXCEPT
                             !.surround_rows = WithTitleSlots(surround_rows)]
            /\ UNCHANGED surround_fresh
       ELSE /\ surround_fresh' = WithTitleSlots(surround_rows)
            /\ UNCHANGED caller
    /\ pc' = "render"
    /\ UNCHANGED <<args, term_columns, err, max_widths, wrap_columns,
                   total_spacing, wrappable_space, todo, row_idx, out>>

\* line 82 is false
NoTitles ==
    /\ pc = "check_min"
    /\ ~TooNarrow(max_widths, args.require_min_widths)
    /\ args.titles = <<>>
    /\ pc' = "render"
    /\ UNCHANGED <<args, term_columns, caller, err, rows, max_widths,
                   wrap_columns, total_spacing, wrappable_space, todo,
                   surround_fresh, row_idx, out>>

\* line 97: enumerate(rows, -2 if titles else 0)
RowNum(i) == (i - 1) + (IF args.titles # <<>> THEN -2 ELSE 0)

\* lines 97-114: one iteration of the loop, yielding the lines of one row
EmitRow ==
    /\ pc = "render"
    /\ row_idx < Len(rows)
    /\ row_idx' = row_idx + 1
    /\ out' = out \o RowLines(rows[row_idx'], RowNum(row_idx'))
    /\ UNCHANGED <<args, term_columns, caller, pc, err, rows, max_widths,
                   wrap_columns, total_spacing, wrappable_space, todo,
                   surround_fresh>>

\* the loop of line 97 is exhausted: the generator returns
Finish ==
    /\ pc = "render"
    /\ row_idx = Len(rows)
    /\ pc' = "done"
    /\ UNCHANGED <<args, term_columns, caller, err, rows, max_widths,
                   wrap_columns, total_spacing, wrappable_space, todo,
                   surround_fresh, row_idx, out>>

Next ==
    \/ Assemble
    \/ NoStructuredRow
    \/ ComputeWidths
    \/ BeginWrap
    \/ NoWrap
    \/ \E n \in todo : WrapVisit(n)
    \/ ClampWrapped
    \/ RaiseTooNarrow
    \/ InsertTitleSep
    \/ NoTitles
    \/ EmitRow
    \/ Finish

Spec == Init /\ [][Next]_vars

\* ---------------------------------------------------------------- properties
\* column widths before any wrapping: the maximum over the structured rows
NaturalWidths == MaxWidths(rows, Len(max_widths))

\* the wrap set the call was given, normalised against the column count
SuppliedWrap == NormWrap(args.wrap_columns, Len(max_widths))

\* line 64 held for this call
Triggered ==
    WrapTriggered(NaturalWidths, total_spacing, term_columns, SuppliedWrap)

\* the widths are final: line 76 / line 78 is behind
WidthsFinal ==
    \/ pc \in {"check_min", "render", "done"}
    \/ pc = "failed" /\ err = "TooNarrowColumn"

TableWidth == Sum(max_widths) + total_spacing

\* length of a line without its escape sequences (SGR and erase-in-line)
VisibleLen(text) == Len(StripCsi(text, {"m", "K"}))

StartsWith(text, prefix) ==
    Len(text) >= Len(prefix) /\ SubSeq(text, 1, Len(prefix)) = prefix

EndsWith(text, suffix) ==
    Len(text) >= Len(suffix)
    /\ SubSeq(text, Len(text) - Len(suffix) + 1, Len(text)) = suffix

Texts == [i \in 1..Len(out) |-> out[i].text]

MinWidthViolated ==
    \E p \in args.require_min_widths :
        max_widths[IF p[1] < 0 THEN Len(max_widths) + p[1] + 1 ELSE p[1] + 1]
            < p[2]

\* C1: with a structured row present, the call fails with TooNarrowColumn
\* exactly when some required minimum exceeds the final width of its column,
\* and it fails before any line is yielded.
C1_TooNarrowIffViolated ==
    /\ (pc = "failed" /\ err = "TooNarrowColumn")
           => (MinWidthViolated /\ out = <<>>)
    /\ pc \in {"render", "done"} /\ max_widths # <<>> => ~MinWidthViolated

\* C1 witness: the natural widths satisfy every minimum, wrapping shrinks a
\* column below its minimum, and the call has failed.
C1_Witness ==
    /\ pc = "failed" /\ err = "TooNarrowColumn" /\ Triggered
    /\ \A p \in args.require_min_widths :
           NaturalWidths[Idx(p[1], Len(max_widths))] >= p[2]

\* C2: a completed call has yielded at least as many lines as it has rows
\* (title row, separator row, literal rows, structured rows).
C2_LinesAtLeastRows == pc = "done" => Len(out) >= Len(rows)

\* C3: every line of a structured row is, without its escape sequences, no
\* longer than the table width, also when the share is zero or negative.
C3_LineFitsTable ==
    \A i \in 1..Len(out) :
        ~out[i].lit => VisibleLen(out[i].text) <= TableWidth

TitleLines == {i \in 1..Len(out) : out[i].row_num = -2}
SepLines == {i \in 1..Len(out) : out[i].row_num = -1}

OnlySepChars(text) ==
    \A i \in 1..Len(text) :
        text[i] = args.title_sep_char[((i - 1) % Len(args.title_sep_char)) + 1]

\* C4: with titles, the output is the title line(s) in BOLD..RESET, then one
\* separator line of title_sep_char of exactly the table width, then the data
\* lines in input order.
C4_TitleThenSeparator ==
    pc = "done" /\ args.titles # <<>> =>
        /\ TitleLines # {}
        /\ \A i \in TitleLines :
               StartsWith(out[i].text, BOLD) /\ EndsWith(out[i].text, RESET)
        /\ Cardinality(SepLines) = 1
        /\ \A i \in SepLines :
               /\ i = Cardinality(TitleLines) + 1
               /\ OnlySepChars(clean_esc(out[i].text))
               /\ strlen(out[i].text) = TableWidth
        /\ \A i \in 1..(Len(out) - 1) : out[i].row_num <= out[i + 1].row_num

\* C5: a decoration pair the caller supplied for slot -2 (title) or -1
\* (separator) is the one the title or separator line is wrapped in.
C5_CallerTitleSlotsKept ==
    pc = "done" /\ args.titles # <<>> =>
        \A k \in {-2, -1} \cap DOMAIN args.surround_rows :
            \A i \in 1..Len(out) :
                out[i].row_num = k =>
                    /\ StartsWith(out[i].text, args.surround_rows[k][1])
                    /\ EndsWith(out[i].text, args.surround_rows[k][2])

\* C6: with no required minimum widths the call never fails, and a call
\* without rows and titles completes with no line.
C6_NeverFails ==
    /\ args.require_min_widths = {} => pc # "failed"
    /\ pc = "done" /\ args.items = <<>> /\ args.titles = <<>> => out = <<>>

\* C7: the objects the caller passed hold what they held at the call.
C7_ArgumentsUnchanged ==
    /\ DOMAIN caller.surround_rows = DOMAIN args.surround_rows
    /\ \A k \in DOMAIN args.surround_rows :
           caller.surround_rows[k] = args.surround_rows[k]
    /\ caller.column_formats = args.column_formats
    /\ caller.wrap_columns = args.wrap_columns
    /\ caller.items = args.items
    /\ caller.titles = args.titles

IsC8Call ==
    /\ args.items = TabC8 /\ args.titles = <<>>
    /\ args.column_spacing = 2 /\ args.end_spacing = 0
    /\ args.wrap_columns = {} /\ term_columns >= 7
    /\ DOMAIN args.surround_rows = {} /\ DOMAIN args.column_formats = {}
    /\ ~args.striped_row_bg.some

\* C8 as stated: widths [3,2], lines "a   bb" (three spaces) and "ccc d".
C8_Original ==
    IsC8Call /\ pc = "done" =>
        /\ max_widths = <<3, 2>>
        /\ Texts = <<<<"a", " ", " ", " ", "b", "b">>,
                     <<"c", "c", "c", " ", "d">>>>

\* C8 amended: widths [3,2], lines "a    bb" (the cell padded to width 3,
\* then two spaces) and "ccc  d" (two spaces, the trailing space trimmed).
C8_ExampleLines ==
    IsC8Call /\ pc = "done" =>
        /\ max_widths = <<3, 2>>
        /\ Texts = <<<<"a", " ", " ", " ", " ", "b", "b">>,
                     <<"c", "c", "c", " ", " ", "d">>>>

\* C8 witness: the example call has completed with two lines.
C8_Witness == IsC8Call /\ pc = "done" /\ Len(out) = 2

\* C9: after the redistribution loop no column left in the wrap set is
\* narrower than the final share, so none is widened by line 76.
C9_LoopFixedPoint ==
    Triggered /\ WidthsFinal =>
        \A n \in wrap_columns :
            /\ NaturalWidths[n + 1] >= wrappable_space
            /\ max_widths[n + 1] <= NaturalWidths[n + 1]

\* C10: when wrapping is triggered, a column remains in the wrap set, the
\* final table width is at most the terminal width, and the columns outside
\* the supplied wrap set keep their natural width.
C10_WrappedTableFits ==
    Triggered /\ WidthsFinal =>
        /\ wrap_columns # {}
        /\ TableWidth <= term_columns
        /\ \A n \in 1..Len(max_widths) :
               (n - 1) \notin SuppliedWrap => max_widths[n] = NaturalWidths[n]

\* C10 witness: wrapping was triggered, the loop removed a column from the
\* wrap set and shrank another, and a column outside the wrap set exists.
C10_Witness ==
    /\ Triggered /\ pc = "done"
    /\ wrap_columns # SuppliedWrap
    /\ \E n \in wrap_columns : max_widths[n + 1] < NaturalWidths[n + 1]
    /\ \E n \in 1..Len(max_widths) : (n - 1) \notin SuppliedWrap
====
